---- MODULE Spec2Model ----
(***************************************************************************)
(* Model of scripts/markdown-sync-changes.py: clean_content, the           *)
(* file_pattern regular expression, sync_changes_to_src and main.          *)
(* Texts are sequences of one-character strings; BQ stands for the         *)
(* backquote character, which a TLA+ string cannot hold.                   *)
(***************************************************************************)
EXTENDS Integers, Sequences, FiniteSets, TLC

VARIABLES
    pc,               \* where main and sync_changes_to_src stand
    exists,           \* changes_file.exists()
    layout,           \* the pieces changes.md was put together from
    content,          \* the text read from changes.md
    matches,          \* list(file_pattern.finditer(content))
    idx,              \* the match the loop of line 46 is at
    processed_count,
    error_count,
    files,            \* the files under base_dir, by resolved place
    dirs,             \* the directories under base_dir
    writes,           \* the files opened for writing, in order
    out,              \* the lines printed
    response,         \* what the operator typed at the prompt
    cin, cout1, cout2, cstep   \* clean_content applied to a text, twice

cvars == <<cin, cout1, cout2, cstep>>
svars == <<pc, exists, layout, content, matches, idx, processed_count,
           error_count, files, dirs, writes, out, response>>
vars == <<pc, exists, layout, content, matches, idx, processed_count,
          error_count, files, dirs, writes, out, response,
          cin, cout1, cout2, cstep>>

\* ---------------------------------------------------------------- bounds
\* longest text given to clean_content
MaxLen == 6

\* most pieces (blocks, prose) in one changes.md
MaxBlocks == 2

\* ------------------------------------------------------- character classes
\* the backquote character
BQ == "BQ"

\* \s of re and the characters str.rstrip() removes, within the alphabet
WS == {" ", "\t", "\n", "\r", "\f"}

\* the line boundaries of str.splitlines, within the alphabet
LineBreaks == {"\n", "\r", "\f"}

\* the characters the texts given to clean_content are drawn from
CleanAlphabet == {"a", BQ, " ", "\n", "\r"}

\* ------------------------------------------------------------ clean_content
IsFenceAt(s, i) ==
    /\ i >= 1
    /\ i + 2 <= Len(s)
    /\ s[i] = BQ /\ s[i + 1] = BQ /\ s[i + 2] = BQ

\* the least and the greatest number of a set of numbers that is not empty
Least(S) == CHOOSE k \in S : \A j \in S : k <= j
Greatest(S) == CHOOSE k \in S : \A j \in S : j <= k

\* the least and the greatest number from lo to hi that P holds of
LeastSuch(lo, hi, P(_)) ==
    CHOOSE k \in lo..hi : P(k) /\ \A j \in lo..k - 1 : ~P(j)
GreatestSuch(lo, hi, P(_)) ==
    hi - LeastSuch(0, hi - lo, LAMBDA d : P(hi - d))

\* how many whitespace characters follow from position p on
WsRun(s, p) ==
    LeastSuch(p, Len(s) + 1, LAMBDA q : q = Len(s) + 1 \/ s[q] \notin WS) - p

\* the end anchor without re.MULTILINE: at the end, or before a final newline
AtDollar(s, p) ==
    \/ p = Len(s) + 1
    \/ (p = Len(s) /\ s[p] = "\n")

\* the pattern of line 88 (fence, greedy whitespace, end anchor) tried at
\* position i: the position after the match, 0 when none. The whitespace
\* is greedy: the longest run first, then shorter ones.
TrailingFenceEnd(s, i) ==
    IF ~IsFenceAt(s, i) THEN 0
    ELSE LET run == WsRun(s, i + 3)
             ks  == {k \in 0..run : AtDollar(s, i + 3 + k)}
         IN IF ks = {} THEN 0
            ELSE i + 3 + Greatest(ks)

RECURSIVE SubTrailingFence(_, _)
\* re.sub of line 88 from position i on: the leftmost match is removed and
\* the search goes on after it
SubTrailingFence(s, i) ==
    LET at == {j \in i..Len(s) : TrailingFenceEnd(s, j) > 0}
    IN IF at = {} THEN SubSeq(s, i, Len(s))
       ELSE SubSeq(s, i, Least(at) - 1)
            \o SubTrailingFence(s, TrailingFenceEnd(s, Least(at)))

RECURSIVE ReplaceCRLFIn(_, _, _)
\* str.replace of CR LF by LF in s[lo..hi]: a CR right before an LF goes
ReplaceCRLFIn(s, lo, hi) ==
    IF lo > hi THEN <<>>
    ELSE IF lo = hi
         THEN (IF s[lo] = "\r" /\ lo < Len(s) /\ s[lo + 1] = "\n" THEN <<>> ELSE <<s[lo]>>)
    ELSE LET mid == (lo + hi) \div 2
         IN ReplaceCRLFIn(s, lo, mid) \o ReplaceCRLFIn(s, mid + 1, hi)

\* where a line boundary of str.splitlines starts: a line break that is not
\* the LF of a CR LF
BoundaryStarts(s) ==
    {k \in 1..Len(s) : s[k] \in LineBreaks
                         /\ ~(s[k] = "\n" /\ k > 1 /\ s[k - 1] = "\r")}

\* the position after the boundary that starts at k: CR LF is one boundary
BoundaryEnd(s, k) ==
    IF s[k] = "\r" /\ k < Len(s) /\ s[k + 1] = "\n" THEN k + 2 ELSE k + 1

\* the j-th number of a set of numbers, in rising order
Nth(S, j) == CHOOSE k \in S : Cardinality({m \in S : m <= k}) = j

\* str.splitlines: the lines without their boundaries; CR LF is one
\* boundary; no empty last line after a final boundary
SplitLines(s, starts) ==
    LET n     == Cardinality(starts)
        from(j) == IF j = 1 THEN 1 ELSE BoundaryEnd(s, Nth(starts, j - 1))
        tail  == IF n = 0 THEN 1 ELSE BoundaryEnd(s, Nth(starts, n))
        lines == [j \in 1..n |-> SubSeq(s, from(j), Nth(starts, j) - 1)]
    IN IF tail <= Len(s) THEN Append(lines, SubSeq(s, tail, Len(s))) ELSE lines

\* a splitlines that knows the newline only
SplitAtNewlineOnly(s) == SplitLines(s, {k \in 1..Len(s) : s[k] = "\n"})

splitlines(s) == SplitLines(s, BoundaryStarts(s))

\* str.rstrip(): trailing whitespace removed
rstrip(s) ==
    SubSeq(s, 1, GreatestSuch(0, Len(s), LAMBDA k : k = 0 \/ s[k] \notin WS))

\* str.rstrip of newlines only
rstripNewlines(s) ==
    SubSeq(s, 1, GreatestSuch(0, Len(s), LAMBDA k : k = 0 \/ s[k] # "\n"))

RECURSIVE JoinLines(_)
\* join of the lines with a newline between
JoinLines(lines) ==
    IF lines = <<>> THEN <<>>
    ELSE IF Len(lines) = 1 THEN lines[1]
    ELSE lines[1] \o <<"\n">> \o JoinLines(Tail(lines))

\* line 88
StripTrailingFence(s) == SubTrailingFence(s, 1)

\* line 91
NormalizeLineEndings(s) == ReplaceCRLFIn(s, 1, Len(s))

\* line 94
StripLines(s) ==
    LET lines == splitlines(s)
    IN JoinLines([k \in 1..Len(lines) |-> rstrip(lines[k])])

\* line 97 without the rstrip
AppendNewlineOnly(s) == s \o <<"\n">>

\* line 97
SingleFinalNewline(s) == rstripNewlines(s) \o <<"\n">>

clean_content(s) ==
    SingleFinalNewline(StripLines(NormalizeLineEndings(StripTrailingFence(s))))

\* ------------------------------------------------------- file_pattern
FENCE == <<BQ, BQ, BQ>>
MARKDOWN == <<"m", "a", "r", "k", "d", "o", "w", "n">>
DASHES == <<"-", "-", "-">>
START_PHRASE == <<"S", "T", "A", "R", "T", " ", "O", "F", " ", "M", "O", "D", "I", "F", "I", "E", "D", " ", "F", "I", "L", "E">>
END_PHRASE == <<"E", "N", "D", " ", "O", "F", " ", "M", "O", "D", "I", "F", "I", "E", "D", " ", "F", "I", "L", "E">>
SRC_SLASH == <<"s", "r", "c", "/">>

\* [a-zA-Z0-9]
AlNum ==
    {"a", "b", "c", "d", "e", "f", "g", "h", "i", "j", "k", "l", "m", "n", "o",
     "p", "q", "r", "s", "t", "u", "v", "w", "x", "y", "z", "A", "B", "C", "D",
     "E", "F", "G", "H", "I", "J", "K", "L", "M", "N", "O", "P", "Q", "R", "S",
     "T", "U", "V", "W", "X", "Y", "Z", "0", "1", "2", "3", "4", "5", "6", "7",
     "8", "9"}

\* whether character c is in the class: \s, [^\s], [a-zA-Z0-9], . under
\* re.DOTALL, [^\n]
InClass(c, cls) ==
    CASE cls = "space"    -> c \in WS
      [] cls = "nonspace" -> c \notin WS
      [] cls = "alnum"    -> c \in AlNum
      [] cls = "any"      -> TRUE
      [] cls = "nonnl"    -> c # "\n"

Lit(text) == [kind |-> "lit", text |-> text, cls |-> "", min |-> 0, greedy |-> TRUE, n |-> 0]
Rep(cls, min, greedy) == [kind |-> "rep", text |-> <<>>, cls |-> cls, min |-> min, greedy |-> greedy, n |-> 0]
Open(n) == [kind |-> "open", text |-> <<>>, cls |-> "", min |-> 0, greedy |-> TRUE, n |-> n]
Close(n) == [kind |-> "close", text |-> <<>>, cls |-> "", min |-> 0, greedy |-> TRUE, n |-> n]
Spaces == Rep("space", 0, TRUE)

\* the content group of line 18: lazy, any character
ContentGroup == Rep("any", 0, FALSE)

\* the pattern of lines 14-24, element by element
file_pattern ==
    <<Lit(FENCE \o MARKDOWN), Spaces,
      Lit(DASHES), Spaces, Lit(START_PHRASE), Spaces,
      Open(1), Lit(SRC_SLASH), Rep("nonspace", 1, FALSE), Close(1),
      Spaces, Lit(DASHES), Spaces,
      Lit(FENCE), Rep("alnum", 0, TRUE), Spaces,
      Open(2), ContentGroup, Close(2), Spaces,
      Lit(FENCE), Spaces,
      Lit(FENCE \o MARKDOWN), Spaces,
      Lit(DASHES), Spaces, Lit(END_PHRASE), Rep("nonnl", 0, TRUE), Spaces,
      Lit(FENCE)>>

LitAt(s, p, text) ==
    /\ p + Len(text) - 1 <= Len(s)
    /\ \A k \in 1..Len(text) : s[p + k - 1] = text[k]

\* how many characters of the class follow from position p on
ClassRun(s, p, cls) ==
    IF cls = "any" THEN Len(s) + 1 - p
    ELSE LeastSuch(p, Len(s) + 1, LAMBDA q : q = Len(s) + 1 \/ ~InClass(s[q], cls)) - p

SetGroup(r, kind, n, p) ==
    IF kind = "open"
    THEN (IF n = 1 THEN [r EXCEPT !.g1s = p] ELSE [r EXCEPT !.g2s = p])
    ELSE (IF n = 1 THEN [r EXCEPT !.g1e = p] ELSE [r EXCEPT !.g2e = p])

RECURSIVE CanMatch(_, _, _, _)
\* whether elements i.. of pat match at position p of s, in some way
CanMatch(pat, s, i, p) ==
    IF i > Len(pat) THEN TRUE
    ELSE LET e == pat[i]
         IN CASE e.kind = "lit" ->
                   LitAt(s, p, e.text) /\ CanMatch(pat, s, i + 1, p + Len(e.text))
              [] e.kind \in {"open", "close"} ->
                   CanMatch(pat, s, i + 1, p)
              [] e.kind = "rep" ->
                   \E k \in e.min..ClassRun(s, p, e.cls) : CanMatch(pat, s, i + 1, p + k)

RECURSIVE MatchFrom(_, _, _, _)
\* the match re finds for elements i.. of pat at position p of s, where
\* they can match: backtracking takes the first success in the order the
\* alternatives are tried, and a repetition tries its counts in order,
\* greedy from the most and lazy from the least; so it stops at the
\* greatest or least count after which the rest can match.
MatchFrom(pat, s, i, p) ==
    IF i > Len(pat)
    THEN [end |-> p, g1s |-> 0, g1e |-> 0, g2s |-> 0, g2e |-> 0]
    ELSE LET e == pat[i]
         IN CASE e.kind = "lit" ->
                   MatchFrom(pat, s, i + 1, p + Len(e.text))
              [] e.kind \in {"open", "close"} ->
                   SetGroup(MatchFrom(pat, s, i + 1, p), e.kind, e.n, p)
              [] e.kind = "rep" ->
                   LET run == ClassRun(s, p, e.cls)
                       rest(k) == CanMatch(pat, s, i + 1, p + k)
                   IN MatchFrom(pat, s, i + 1,
                                p + IF e.greedy THEN GreatestSuch(e.min, run, rest)
                                    ELSE LeastSuch(e.min, run, rest))

RECURSIVE FindAllFrom(_, _, _)
\* list(pat.finditer(s)) from position p on: leftmost, non-overlapping;
\* each match as group(1), group(2)
FindAllFrom(pat, s, p) ==
    LET starts(q) == q = Len(s) + 1 \/ CanMatch(pat, s, 1, q)
        q == LeastSuch(p, Len(s) + 1, starts)
        r == MatchFrom(pat, s, 1, q)
    IN IF p > Len(s) \/ q > Len(s) THEN <<>>
       ELSE <<[path |-> SubSeq(s, r.g1s, r.g1e - 1),
               content |-> SubSeq(s, r.g2s, r.g2e - 1)]>>
            \o FindAllFrom(pat, s, IF r.end > q THEN r.end ELSE q + 1)

\* line 26
finditer(s) == FindAllFrom(file_pattern, s, 1)

\* ------------------------------------------------------- changes.md
PathA == <<"s", "r", "c", "/", "a">>
PathB == <<"s", "r", "c", "/", "b">>
PathAB == <<"s", "r", "c", "/", "a", "/", "b">>
PathNC == <<"s", "r", "c", "/", "n", "/", "c">>
PathUp == <<"s", "r", "c", "/", ".", ".", "/", "x">>
LangTs == <<"t", "s">>
BodyX == <<"x">>
BodyY == <<" ", "y", " ", "\n">>
BodyFence == <<"x", "\n", BQ, BQ, BQ, "\n", "z">>
OldText == <<"o", "l", "d", "\n">>
Prose == <<"S", "o", "m", "e", " ", "n", "o", "t", "e", "s", ".", "\n">>
NL == <<"\n">>
SP == <<" ">>

StartMarker(path) == DASHES \o SP \o START_PHRASE \o SP \o path \o SP \o DASHES \o NL
EndMarker(path) == DASHES \o SP \o END_PHRASE \o SP \o path \o SP \o DASHES \o NL
Fenced(lang, body) == FENCE \o lang \o NL \o body \o NL \o FENCE \o NL

\* the format the pattern is written for (comment of lines 11-13): the
\* START marker opens a markdown fence that the content fence closes
FormatPattern(b) ==
    FENCE \o MARKDOWN \o NL \o StartMarker(b.path)
    \o Fenced(b.lang, b.body)
    \o FENCE \o MARKDOWN \o NL \o EndMarker(b.path) \o FENCE \o NL

\* the expected format printed at lines 34-43: both markers in a markdown
\* fence of their own
FormatHelp(b) ==
    FENCE \o MARKDOWN \o NL \o StartMarker(b.path) \o FENCE \o NL
    \o Fenced(b.lang, b.body)
    \o FENCE \o MARKDOWN \o NL \o EndMarker(b.path) \o FENCE \o NL

\* the expected format printed at lines 74-79: bare marker lines
FormatBare(b) ==
    StartMarker(b.path) \o Fenced(b.lang, b.body) \o EndMarker(b.path)

\* a block whose END marker is missing
FormatNoEnd(b) ==
    FENCE \o MARKDOWN \o NL \o StartMarker(b.path) \o Fenced(b.lang, b.body)

RenderBlock(b) ==
    CASE b.form = "pattern" -> FormatPattern(b)
      [] b.form = "help"    -> FormatHelp(b)
      [] b.form = "bare"    -> FormatBare(b)
      [] b.form = "noend"   -> FormatNoEnd(b)
      [] b.form = "prose"   -> Prose

RECURSIVE RenderDoc(_)
RenderDoc(bs) ==
    IF bs = <<>> THEN <<>> ELSE RenderBlock(Head(bs)) \o RenderDoc(Tail(bs))

Block(form, path, lang, body) == [form |-> form, path |-> path, lang |-> lang, body |-> body]

\* the pieces a changes.md is put together from
Shapes ==
    {Block("pattern", PathA, LangTs, BodyX),
     Block("pattern", PathA, <<>>, BodyY),
     Block("pattern", PathNC, LangTs, BodyFence),
     Block("pattern", PathAB, <<>>, <<>>),
     Block("pattern", PathUp, LangTs, BodyX),
     Block("help", PathB, LangTs, BodyX),
     Block("bare", PathB, LangTs, BodyX),
     Block("noend", PathB, LangTs, BodyX),
     Block("prose", <<>>, <<>>, <<>>)}

RECURSIVE ShapeSeqs(_)
ShapeSeqs(n) ==
    IF n = 0 THEN {<<>>}
    ELSE {Append(t, b) : t \in ShapeSeqs(n - 1), b \in Shapes}

Layouts == UNION {ShapeSeqs(n) : n \in 0..MaxBlocks}

\* ------------------------------------------------------- paths, files
RECURSIVE lstrip(_)
lstrip(s) == IF s # <<>> /\ s[1] \in WS THEN lstrip(Tail(s)) ELSE s

\* str.strip()
strip(s) == lstrip(rstrip(s))

RECURSIVE SplitPathFrom(_, _, _)
\* the components of a path, split at "/"
SplitPathFrom(s, i, cur) ==
    IF i > Len(s) THEN <<cur>>
    ELSE IF s[i] = "/" THEN <<cur>> \o SplitPathFrom(s, i + 1, <<>>)
    ELSE SplitPathFrom(s, i + 1, Append(cur, s[i]))

SplitPath(s) == SplitPathFrom(s, 1, <<>>)

DotDot == <<".", ".">>

RECURSIVE ResolveOnto(_, _)
\* where the operating system finds a path relative to base_dir: ".."
\* leaves a directory, and above base_dir it stays in the result
ResolveOnto(stack, segs) ==
    IF segs = <<>> THEN stack
    ELSE LET c == Head(segs)
         IN IF c = <<>> \/ c = <<".">> THEN ResolveOnto(stack, Tail(segs))
            ELSE IF c = DotDot /\ stack # <<>> /\ stack[Len(stack)] # DotDot
                 THEN ResolveOnto(SubSeq(stack, 1, Len(stack) - 1), Tail(segs))
            ELSE ResolveOnto(Append(stack, c), Tail(segs))

\* os.path.join(base_dir, relative_path), as a place relative to base_dir
Resolve(segs) == ResolveOnto(<<>>, segs)

\* base_dir itself and the directories above it
AtOrAboveBase(r) == \A k \in 1..Len(r) : r[k] = DotDot

SrcDir == <<<<"s", "r", "c">>>>

\* whether the resolved place lies under base_dir/src
UnderSrc(r) == Len(r) >= 2 /\ r[1] = SrcDir[1]

\* the files and directories under base_dir before the run
InitialFiles == (<<SrcDir[1], <<"a">>>> :> OldText)
InitialDirs == {SrcDir}

IsDir(ds, r) == AtOrAboveBase(r) \/ r \in ds

RECURSIVE MakeDirsFrom(_, _, _, _)
\* os.makedirs(d, exist_ok=True), prefix by prefix: a prefix that is a file
\* raises; the prefixes before it have been created
MakeDirsFrom(ds, fs, dsegs, j) ==
    IF j > Len(dsegs) THEN [ok |-> TRUE, dirs |-> ds]
    ELSE LET r == Resolve(SubSeq(dsegs, 1, j))
         IN IF r \in DOMAIN fs THEN [ok |-> FALSE, dirs |-> ds]
            ELSE MakeDirsFrom(IF AtOrAboveBase(r) THEN ds ELSE ds \cup {r},
                              fs, dsegs, j + 1)

makedirs(ds, fs, dsegs) == MakeDirsFrom(ds, fs, dsegs, 1)

\* a write that keeps a file that is already there
WriteFileIfAbsent(fs, r, text) ==
    IF r \in DOMAIN fs THEN fs ELSE (r :> text) @@ fs

\* open for writing and f.write(text): the file holds the text,
\* whatever it held before
WriteFile(fs, r, text) == (r :> text) @@ fs

\* ------------------------------------------------------- main, sync
\* str.lower(), within the alphabet of the answers
lower(s) == [k \in 1..Len(s) |-> IF s[k] = "Y" THEN "y" ELSE s[k]]

\* a prompt whose default is yes
AffirmativeUnlessNo(r) == lower(strip(r)) # <<"n">>

\* lines 115-116: the answer, stripped and lowered, is y
Affirmative(r) == lower(strip(r)) = <<"y">>

\* what the operator may type at the prompt
Responses == {<<"y">>, <<" ", "Y", "\n">>, <<"n">>, <<>>, <<"y", "e", "s">>}

\* a test for no matches that an empty list does not pass
NoMatchesNever(ms) == Len(ms) < 0

\* line 30
NoMatches(ms) == ms = <<>>

\* an except clause that does not count
CountErrorNot(n) == n

\* line 63
CountError(n) == n + 1

\* line 59
CountProcessed(n) == n + 1

\* an exception that ends the loop
BreakAfterError(i, n) == n + 1

\* lines 46, 61-63: the loop goes on with the next match after an exception
NextAfterError(i, n) == i + 1

\* an entry of writes: the place, the match it was opened for, and whether
\* f.write returned
Written(at, by, complete) == [at |-> at, by |-> by, complete |-> complete]

Say(kind, path) == [kind |-> kind, path |-> path]

Init ==
    /\ pc = "main"
    /\ exists \in BOOLEAN
    /\ layout \in (IF exists THEN Layouts ELSE {<<>>})
    /\ content = <<>>
    /\ matches = <<>>
    /\ idx = 0
    /\ processed_count = 0
    /\ error_count = 0
    /\ files = InitialFiles
    /\ dirs = InitialDirs
    /\ writes = <<>>
    /\ out = <<>>
    /\ response = <<>>
    /\ cin = <<>> /\ cout1 = <<>> /\ cout2 = <<>> /\ cstep = 0

\* lines 107-109: changes.md is missing
MainMissing ==
    /\ pc = "main"
    /\ ~exists
    /\ out' = Append(out, Say("not found", <<>>))
    /\ pc' = "done"
    /\ UNCHANGED <<exists, layout, content, matches, idx, processed_count,
                   error_count, files, dirs, writes, response, cvars>>

\* lines 107-120: changes.md exists and the operator is asked
MainPrompt ==
    /\ pc = "main"
    /\ exists
    /\ \E r \in Responses :
         IF Affirmative(r)
         THEN /\ response' = r
              /\ pc' = "sync"
              /\ out' = out
         ELSE /\ response' = r
              /\ pc' = "done"
              /\ out' = Append(out, Say("cancelled", <<>>))
    /\ UNCHANGED <<exists, layout, content, matches, idx, processed_count,
                   error_count, files, dirs, writes, cvars>>

\* lines 6-44: the file is read and matched; no match returns
SyncParse ==
    /\ pc = "sync"
    /\ LET text == RenderDoc(layout)
           ms   == finditer(text)
       IN /\ content' = text
          /\ matches' = ms
          /\ processed_count' = 0
          /\ error_count' = 0
          /\ IF NoMatches(ms)
             THEN /\ pc' = "done"
                  /\ idx' = idx
                  /\ out' = out \o <<Say("starting", <<>>), Say("no blocks", <<>>)>>
             ELSE /\ pc' = "loop"
                  /\ idx' = 1
                  /\ out' = Append(out, Say("starting", <<>>))
    /\ UNCHANGED <<exists, layout, files, dirs, writes, response, cvars>>

\* lines 46-63, one match: the outcomes of makedirs, open and write
SyncBlock ==
    /\ pc = "loop"
    /\ idx <= Len(matches)
    /\ LET relative_path == strip(matches[idx].path)
           file_content  == matches[idx].content
           segs   == SplitPath(relative_path)
           dsegs  == SubSeq(segs, 1, Len(segs) - 1)
           target == Resolve(segs)
           made   == makedirs(dirs, files, dsegs)
           failed == /\ out' = Append(out, Say("error", relative_path))
                     /\ error_count' = CountError(error_count)
                     /\ processed_count' = processed_count
                     /\ idx' = NextAfterError(idx, Len(matches))
       IN \/ \* makedirs raises: a component is a file
             /\ ~made.ok
             /\ dirs' = made.dirs
             /\ UNCHANGED <<files, writes>>
             /\ failed
          \/ \* makedirs raises for a reason of the environment
             /\ made.ok
             /\ UNCHANGED <<dirs, files, writes>>
             /\ failed
          \/ \* open raises: the target is a directory, or the environment
             /\ made.ok
             /\ dirs' = made.dirs
             /\ UNCHANGED <<files, writes>>
             /\ failed
          \/ \* f.write raises after open has truncated the file
             /\ made.ok
             /\ ~IsDir(made.dirs, target)
             /\ dirs' = made.dirs
             /\ files' = WriteFile(files, target, <<>>)
             /\ writes' = Append(writes, Written(target, idx, FALSE))
             /\ failed
          \/ \* the file is written
             /\ made.ok
             /\ ~IsDir(made.dirs, target)
             /\ dirs' = made.dirs
             /\ files' = WriteFile(files, target, clean_content(file_content))
             /\ writes' = Append(writes, Written(target, idx, TRUE))
             /\ out' = Append(out, Say("synced", relative_path))
             /\ processed_count' = CountProcessed(processed_count)
             /\ error_count' = error_count
             /\ idx' = idx + 1
    /\ UNCHANGED <<pc, exists, layout, content, matches, response, cvars>>

\* lines 65-83: the summary after the last match
SyncSummary ==
    /\ pc = "loop"
    /\ idx > Len(matches)
    /\ out' = Append(out, Say("completed", <<>>))
    /\ pc' = "done"
    /\ UNCHANGED <<exists, layout, content, matches, idx, processed_count,
                   error_count, files, dirs, writes, response, cvars>>

Next == MainMissing \/ MainPrompt \/ SyncParse \/ SyncBlock \/ SyncSummary

Spec == Init /\ [][Next]_vars

\* ------------------------------------------------ clean_content, applied
\* the texts of n characters
TextsOfLen(n) == [1..n -> CleanAlphabet]

InitClean ==
    /\ pc = "clean"
    /\ exists = FALSE
    /\ layout = <<>>
    /\ content = <<>>
    /\ matches = <<>>
    /\ idx = 0
    /\ processed_count = 0
    /\ error_count = 0
    /\ files = InitialFiles
    /\ dirs = InitialDirs
    /\ writes = <<>>
    /\ out = <<>>
    /\ response = <<>>
    /\ \E n \in 0..MaxLen : cin \in TextsOfLen(n)
    /\ cout1 = <<>>
    /\ cout2 = <<>>
    /\ cstep = 0

\* clean_content(x)
CleanOnce ==
    /\ cstep = 0
    /\ cout1' = clean_content(cin)
    /\ cstep' = 1
    /\ UNCHANGED <<cin, cout2, svars>>

\* clean_content(clean_content(x))
CleanAgain ==
    /\ cstep = 1
    /\ cout2' = clean_content(cout1)
    /\ cstep' = 2
    /\ UNCHANGED <<cin, cout1, svars>>

NextClean == CleanOnce \/ CleanAgain

SpecClean == InitClean /\ [][NextClean]_vars

\* ------------------------------------------------------- claims
\* C1: clean_content is idempotent: cleaning a cleaned text gives the
\* cleaned text again.
C1_Idempotent == cstep = 2 => cout2 = cout1

\* C2: the result of clean_content ends with exactly one newline: its last
\* character is a newline and, when it is longer than one character, the
\* character before is not a newline.
C2_SingleFinalNewline ==
    cstep >= 1 =>
        /\ cout1 # <<>>
        /\ cout1[Len(cout1)] = "\n"
        /\ (Len(cout1) > 1 => cout1[Len(cout1) - 1] # "\n")

\* an input with a text and two or more blank lines after it has been cleaned
C2_Witness ==
    /\ cstep = 1
    /\ Len(cin) >= 3
    /\ cin[1] = "a"
    /\ cin[Len(cin)] = "\n"
    /\ cin[Len(cin) - 1] = "\n"

\* the positions of s that end a line: before a newline, or the last
LineFinal(s) == {k \in 1..Len(s) : s[k] # "\n" /\ (k = Len(s) \/ s[k + 1] = "\n")}

\* C3: the result of clean_content holds no carriage return, and no line
\* of it ends with a whitespace character.
C3_NoCarriageReturnNoTrailingSpace ==
    cstep >= 1 =>
        /\ \A k \in 1..Len(cout1) : cout1[k] # "\r"
        /\ \A k \in LineFinal(cout1) : cout1[k] \notin WS

\* an input with a lone carriage return and a line that ends with a space
\* has been cleaned
C3_Witness ==
    /\ cstep = 1
    /\ \E k \in 1..Len(cin) :
         cin[k] = "\r" /\ k < Len(cin) /\ cin[k + 1] = "a"
    /\ \E k \in 1..Len(cin) :
         cin[k] = " " /\ k > 1 /\ cin[k - 1] = "a" /\ k < Len(cin) /\ cin[k + 1] = "\n"

\* the operator answered the prompt with y
SaidYes == response \in {<<"y">>, <<"Y">>, <<" ", "Y", "\n">>, <<" ", "y", "\n">>}

\* sync_changes_to_src has matched the text of changes.md
Parsed == pc \in {"loop", "done"} /\ exists /\ SaidYes

\* the lines the loop of line 46 printed, one per match handled
LoopLines == SelectSeq(out, LAMBDA l : l.kind \in {"synced", "error"})

TargetOf(m) == Resolve(SplitPath(strip(m.path)))

\* the match the file at place r was last opened for, 0 when none
LastWriter(r) ==
    LET ks == {k \in 1..Len(writes) : writes[k].at = r}
    IN IF ks = {} THEN 0 ELSE writes[Greatest(ks)].by

\* C4: an exception in one block is counted and does not end the run: when
\* sync_changes_to_src has ended, every match has been attempted in
\* document order, and each block without an exception is counted as
\* processed and, unless a later block opened the same file, its file holds
\* its cleaned content.
C4_FailureIsolated ==
    (Parsed /\ pc = "done" /\ matches # <<>>) =>
        /\ Len(LoopLines) = Len(matches)
        /\ \A i \in 1..Len(matches) :
             /\ LoopLines[i].path = strip(matches[i].path)
             /\ LoopLines[i].kind = "synced" =>
                  /\ \E k \in 1..Len(writes) : writes[k].by = i /\ writes[k].complete
                  /\ LastWriter(TargetOf(matches[i])) = i =>
                       /\ TargetOf(matches[i]) \in DOMAIN files
                       /\ files[TargetOf(matches[i])] = clean_content(matches[i].content)
        /\ processed_count = Cardinality({i \in 1..Len(matches) : LoopLines[i].kind = "synced"})
        /\ error_count = Cardinality({i \in 1..Len(matches) : LoopLines[i].kind = "error"})

\* the first block failed and the second was written
C4_Witness ==
    /\ Parsed /\ pc = "done"
    /\ Len(matches) = 2
    /\ Len(LoopLines) = 2
    /\ LoopLines[1].kind = "error"
    /\ LoopLines[2].kind = "synced"
    /\ error_count = 1 /\ processed_count = 1
    /\ files[TargetOf(matches[2])] = clean_content(matches[2].content)

\* C5: no directory is created and no file is written unless changes.md
\* exists and the operator answered y; a run without either ends with the
\* files and directories as they were.
C5_ConfirmationGuardsWrites ==
    /\ (writes # <<>> \/ files # InitialFiles \/ dirs # InitialDirs)
         => (exists /\ SaidYes)
    /\ (pc = "done" /\ ~(exists /\ SaidYes))
         => (writes = <<>> /\ files = InitialFiles /\ dirs = InitialDirs /\ matches = <<>>)

\* the operator declined a changes.md that holds a block the pattern matches
C5_Witness ==
    /\ pc = "done"
    /\ exists
    /\ ~SaidYes
    /\ layout # <<>>
    /\ layout[1].form = "pattern"
    /\ writes = <<>>

\* C6: when two or more blocks of one document target the same file and
\* all of them were written, the file holds the cleaned content of the last
\* of them in document order.
C6_LastWriteWins ==
    (Parsed /\ pc = "done") =>
        \A i \in 1..Len(matches) :
            LET same == {j \in 1..Len(matches) : TargetOf(matches[j]) = TargetOf(matches[i])}
                last == Greatest(same)
            IN (/\ Cardinality(same) >= 2
                /\ Len(LoopLines) = Len(matches)
                /\ \A j \in same : LoopLines[j].kind = "synced")
               => /\ TargetOf(matches[i]) \in DOMAIN files
                  /\ files[TargetOf(matches[i])] = clean_content(matches[last].content)

\* two blocks with different content for the same path were both written
C6_Witness ==
    /\ Parsed /\ pc = "done"
    /\ Len(matches) = 2
    /\ matches[1].path = matches[2].path
    /\ clean_content(matches[1].content) # clean_content(matches[2].content)
    /\ Len(LoopLines) = 2
    /\ LoopLines[1].kind = "synced" /\ LoopLines[2].kind = "synced"
    /\ files[TargetOf(matches[2])] = clean_content(matches[2].content)

\* C7: no match has an empty path, and every file opened for writing lies
\* under base_dir/src.
C7_WritesStayUnderSrc ==
    /\ \A i \in 1..Len(matches) : strip(matches[i].path) # <<>>
    /\ \A k \in 1..Len(writes) : UnderSrc(writes[k].at)

\* the blocks of a layout, without the prose between them
BlocksOf(l) == SelectSeq(l, LAMBDA b : b.form # "prose")

\* every block has a START marker with its path, fenced content and an END
\* marker, in one of the three formats the program describes
WellFormed(l) == \A k \in 1..Len(l) : l[k].form \in {"pattern", "help", "bare", "prose"}

DistinctPaths(bs) == \A i, j \in 1..Len(bs) : bs[i].path = bs[j].path => i = j

\* C8: a well-formed document of k delimiter blocks with distinct paths
\* gives exactly k matches in document order, each with the path of its own
\* START marker and the fenced content of its own block (compared without
\* the whitespace around it).
C8_OneMatchPerBlock ==
    (Parsed /\ WellFormed(layout) /\ DistinctPaths(BlocksOf(layout))) =>
        LET bs == BlocksOf(layout)
        IN /\ Len(matches) = Len(bs)
           /\ \A i \in 1..Len(bs) :
                /\ matches[i].path = bs[i].path
                /\ matches[i].content = strip(bs[i].body)

\* the same for the documents in the format the pattern is written for
C8_PatternFormatOnly ==
    (/\ Parsed
     /\ \A k \in 1..Len(layout) : layout[k].form \in {"pattern", "prose"}
     /\ DistinctPaths(BlocksOf(layout))) =>
        LET bs == BlocksOf(layout)
        IN /\ Len(matches) = Len(bs)
           /\ \A i \in 1..Len(bs) :
                /\ matches[i].path = bs[i].path
                /\ matches[i].content = strip(bs[i].body)

\* C9: when the pattern matches nothing, sync_changes_to_src returns before
\* the loop: nothing is written, no directory is created, and no summary
\* is printed.
C9_NoMatchNoWrite ==
    (Parsed /\ matches = <<>>) =>
        /\ pc = "done"
        /\ writes = <<>>
        /\ files = InitialFiles
        /\ dirs = InitialDirs
        /\ processed_count = 0 /\ error_count = 0
        /\ \A k \in 1..Len(out) : out[k].kind \notin {"synced", "error", "completed"}
        /\ \E k \in 1..Len(out) : out[k].kind = "no blocks"

\* a changes.md that is not empty and holds no match has been synced
C9_Witness ==
    /\ Parsed /\ pc = "done"
    /\ matches = <<>>
    /\ layout # <<>>
    /\ layout[1].form = "noend"
    /\ content # <<>>

\* C10: every match is counted once: in the loop the two counts add up to
\* the matches handled so far, at the end to the number of matches, and
\* processed_count is the number of blocks whose write returned.
C10_CountedOnce ==
    /\ pc = "loop" => processed_count + error_count = idx - 1
    /\ (Parsed /\ matches # <<>>) =>
         /\ processed_count + error_count = Len(LoopLines)
         /\ processed_count = Cardinality({i \in 1..Len(matches) :
                \E k \in 1..Len(writes) : writes[k].by = i /\ writes[k].complete})
    /\ (Parsed /\ pc = "done" /\ matches # <<>>) =>
         processed_count + error_count = Len(matches)

\* a run of two matches, one written and one failed after its file was opened
C10_Witness ==
    /\ Parsed /\ pc = "done"
    /\ Len(matches) = 2
    /\ processed_count = 1 /\ error_count = 1
    /\ \E k \in 1..Len(writes) : ~writes[k].complete
====
